---------------------------- MODULE Spec2Model ----------------------------
(***************************************************************************)
(* A model of TenderAI (final_app.py): the extraction pipeline              *)
(* (extract_text_from_pdf, extract_text_from_docx, parse_xlsx,              *)
(* simple_summary, extract_fields, process_file), the record store          *)
(* (the module-level dict `tenders`, the startup load, save_tenders) and    *)
(* the read handlers (index, tender_detail, download).                      *)
(*                                                                          *)
(* Python strings are TLA+ strings; a Python list is a sequence; the dict   *)
(* `tenders`, whose insertion order Python keeps, is a sequence of          *)
(* [k |-> key, v |-> value] entries with pairwise distinct keys.            *)
(***************************************************************************)
EXTENDS Integers, Sequences, FiniteSets, TLC

VARIABLES
    pc,        \* the server process: "boot" (module not yet imported), "running", "failed"
    tenders,   \* the module-level dict `tenders` (line 34/36)
    disk,      \* DATA_FILE: NoFile, or the file's content, a sequence of JSON tokens
    resp,      \* what the last handler or call returned (calls: the process_file calls it made)
    arg,       \* the input of the call (SpecBuild: the upload, SpecFields: the text)
    mem,       \* SpecConc: `tenders` of each worker process
    req        \* SpecConc: the position and locals of each upload in flight

vars == <<pc, tenders, disk, resp, arg, mem, req>>

-----------------------------------------------------------------------------
(* Bounds of the model.                                                      *)

MaxTenders == 2      \* records the store may hold (Spec)
MaxFiles == 2        \* files of one upload request (Spec)
MaxFrags == 4        \* fragments an input text is concatenated from (SpecFields)
MaxPad == 2          \* characters an input text may exceed ExcerptLen by (SpecFields)
MaxRows == 6         \* rows of a sheet (SpecBuild)

-----------------------------------------------------------------------------
(* Strings.                                                                  *)

Min(a, b) == IF a <= b THEN a ELSE b
Max(a, b) == IF a >= b THEN a ELSE b

\* s[i-1:j] of Python, 1-based and inclusive here; empty when the range is.
Slice(s, i, j) ==
    IF Max(i, 1) > Min(j, Len(s)) THEN "" ELSE SubSeq(s, Max(i, 1), Min(j, Len(s)))

At(s, i) == Slice(s, i, i)

UpperCase == "ABCDEFGHIJKLMNOPQRSTUVWXYZ"
LowerCase == "abcdefghijklmnopqrstuvwxyz"
UpperChars == {At(UpperCase, k) : k \in 1..Len(UpperCase)}

LowerChar(c) ==
    IF c \in UpperChars
    THEN At(LowerCase, CHOOSE k \in 1..Len(UpperCase) : At(UpperCase, k) = c)
    ELSE c

\* The characters lit[k..] match s from position i on (under re.IGNORECASE when ic).
RECURSIVE LitFrom(_, _, _, _, _)
LitFrom(s, i, lit, k, ic) ==
    \/ k > Len(lit)
    \/ /\ IF ic THEN LowerChar(At(s, i)) = LowerChar(At(lit, k))
                ELSE At(s, i) = At(lit, k)
       /\ LitFrom(s, i + 1, lit, k + 1, ic)

\* The literal lit matches s at position i.
LitAt(s, i, lit, ic) ==
    /\ i >= 1
    /\ i + Len(lit) - 1 <= Len(s)
    /\ LitFrom(s, i, lit, 1, ic)

IsDigit(c) == c \in {"0", "1", "2", "3", "4", "5", "6", "7", "8", "9"}
IsSpace(c) == c \in {" ", "\n", "\t", "\r"}           \* \s
IsNumChar(c) == IsDigit(c) \/ c \in {",", "."}         \* [\d,\.]

InClass(c, cls) ==
    CASE cls = "space"    -> IsSpace(c)
      [] cls = "num"      -> IsNumChar(c)
      [] cls = "digit"    -> IsDigit(c)
      [] cls = "nondigit" -> ~IsDigit(c)                \* [^\d]
      [] cls = "nongt"    -> c # ">"                    \* [^>]

\* The end of the longest run of characters of class cls that starts at i
\* (i - 1 when there is none): a greedy [cls]* .
RunEnd(s, i, cls) ==
    IF i > Len(s) THEN i - 1
    ELSE (CHOOSE q \in i..(Len(s) + 1) :
              /\ q = Len(s) + 1 \/ ~InClass(At(s, q), cls)
              /\ \A r \in i..(q - 1) : InClass(At(s, r), cls)) - 1

RECURSIVE JoinWith(_, _)
JoinWith(parts, sep) ==
    IF parts = <<>> THEN ""
    ELSE IF Len(parts) = 1 THEN parts[1]
    ELSE parts[1] \o sep \o JoinWith(Tail(parts), sep)

\* str.strip()
Strip(s) ==
    LET b == RunEnd(s, 1, "space") + 1
        e == CHOOSE k \in 0..Len(s) :
                 /\ \A q \in (k + 1)..Len(s) : IsSpace(At(s, q))
                 /\ k > 0 => ~IsSpace(At(s, k))
    IN  Slice(s, b, e)

-----------------------------------------------------------------------------
(* extract_fields (lines 96-116).                                            *)

NoMatch == [ok |-> FALSE]
Rupee == "₹"
ExcerptLen == 200

Least(S) == CHOOSE x \in S : \A y \in S : x <= y

\* The first match of a sequence of attempts, in the order they are made.
RECURSIVE FirstOk(_)
FirstOk(ms) ==
    IF ms = <<>> THEN NoMatch ELSE IF ms[1].ok THEN ms[1] ELSE FirstOk(Tail(ms))

\* re.search tries every start position from the left: of the attempts ms,
\* one per position, the match at the least position that has one.
LeftmostOf(ms, hits) == IF hits = {} THEN NoMatch ELSE ms[Least(hits)]
Leftmost(ms) == LeftmostOf(ms, {i \in DOMAIN ms : ms[i].ok})

\* \s*([\d,\.]+) at position p, after the marker g1: both are greedy, and
\* giving back white space only moves the number onto a white space.
NumSpan(s, a, e, g1) ==
    IF e >= a THEN [ok |-> TRUE, g1 |-> g1, g2 |-> Slice(s, a, e)] ELSE NoMatch
NumAt(s, a, g1) == NumSpan(s, a, RunEnd(s, a, "num"), g1)
NumAfter(s, p, g1) == NumAt(s, RunEnd(s, p, "space") + 1, g1)

\* (₹|Rs\.?|INR) at position j: the lengths the marker can take, in the order
\* the pattern tries them. Rs\.? takes the period when it can and gives it
\* back to the number when nothing else matches.
MarkerLens(s, j, ic) ==
    (IF LitAt(s, j, Rupee, ic) THEN <<Len(Rupee)>> ELSE <<>>)
    \o (IF LitAt(s, j, "Rs.", ic) THEN <<3>> ELSE <<>>)
    \o (IF LitAt(s, j, "Rs", ic) THEN <<2>> ELSE <<>>)
    \o (IF LitAt(s, j, "INR", ic) THEN <<3>> ELSE <<>>)

MarkerTries(s, j, lens) ==
    [k \in 1..Len(lens) |-> NumAfter(s, j + lens[k], Slice(s, j, j + lens[k] - 1))]

\* (₹|Rs\.?|INR)\s*([\d,\.]+) at position j
MarkerNumAt(s, j, ic) == FirstOk(MarkerTries(s, j, MarkerLens(s, j, ic)))

\* The first newline at or after e, the end of s when there is none.
LineEnd(s, e) == Least({q \in e..Len(s) : At(s, q) = "\n"} \cup {Len(s)})

\* .*? then the marker, from position e on: the gap grows one character at a
\* time and never over a newline (the pattern is compiled without re.DOTALL),
\* so the marker is the first one that matches before the line ends.
LazyGap(s, e) == Leftmost([j \in e..LineEnd(s, e) |-> MarkerNumAt(s, j, TRUE)])

\* (?:EMD|Earnest Money Deposit) at i: the positions after it.
EmdIndicatorEnds(s, i) ==
    (IF LitAt(s, i, "EMD", TRUE) THEN <<i + 3>> ELSE <<>>)
    \o (IF LitAt(s, i, "Earnest Money Deposit", TRUE) THEN <<i + 21>> ELSE <<>>)

GapTries(s, ends) == [k \in 1..Len(ends) |-> LazyGap(s, ends[k])]

\* (?:EMD|Earnest Money Deposit).*?(₹|Rs\.?|INR)\s*([\d,\.]+) at position i
EmdAt(s, i) == FirstOk(GapTries(s, EmdIndicatorEnds(s, i)))

\* re.search(r'(?:EMD|Earnest Money Deposit).*?(₹|Rs\.?|INR)\s*([\d,\.]+)', text, re.IGNORECASE)
EmdSearch(s) == Leftmost([i \in 1..Len(s) |-> EmdAt(s, i)])

\* re.search(r'(₹|Rs\.?|INR)\s*([\d,\.]+)', text)
GeneralSearch(s) == Leftmost([i \in 1..Len(s) |-> MarkerNumAt(s, i, FALSE)])

\* f"{emd_match.group(1)} {emd_match.group(2)}"
FormatEmd(m) == IF m.ok THEN m.g1 \o " " \o m.g2 ELSE ""

\* Lines 102-109: the targeted match, else the first general one, else "".
ExtractEmd(text) == FormatEmd(FirstOk(<<EmdSearch(text), GeneralSearch(text)>>))

\* \d{m,n} at i: how many digits it takes (at most n).
DigitsAt(s, i, n) == Min(RunEnd(s, i, "digit") - i + 1, n)

IsDateSep(c) == c \in {"/", "-"}

\* \d{1,2}[/-] at p, where n digits start: the position after it, 0 for no
\* match. Giving back a digit leaves a digit where the separator must be.
SepAfter(s, p, n) == IF n >= 1 /\ IsDateSep(At(s, p + n)) THEN p + n + 1 ELSE 0
PartEnd(s, p) == IF p = 0 THEN 0 ELSE SepAfter(s, p, DigitsAt(s, p, 2))

\* \d{2,4} at p, where n digits start: its last position, 0 for no match.
YearSpan(p, n) == IF n >= 2 THEN p + n - 1 ELSE 0
YearEnd(s, p) == IF p = 0 THEN 0 ELSE YearSpan(p, DigitsAt(s, p, 4))

DateSpan(s, i, e) == IF e = 0 THEN NoMatch ELSE [ok |-> TRUE, g1 |-> Slice(s, i, e)]

\* \d{1,2}[/-]\d{1,2}[/-]\d{2,4} at i
DateAt(s, i) == DateSpan(s, i, YearEnd(s, PartEnd(s, PartEnd(s, i))))

\* (?:submission(?: date)?|due date|closing date) at i: the positions after
\* it, in the order the alternatives are tried.
DateIndicatorEnds(s, i) ==
    (IF LitAt(s, i, "submission date", TRUE) THEN <<i + 15>> ELSE <<>>)
    \o (IF LitAt(s, i, "submission", TRUE) THEN <<i + 10>> ELSE <<>>)
    \o (IF LitAt(s, i, "due date", TRUE) THEN <<i + 8>> ELSE <<>>)
    \o (IF LitAt(s, i, "closing date", TRUE) THEN <<i + 12>> ELSE <<>>)

\* [^\d]* then the date: the date starts with a digit, so it can only start
\* at the first digit after the indicator.
DateAfter(s, e) == DateAt(s, RunEnd(s, e, "nondigit") + 1)

DateTries(s, ends) == [k \in 1..Len(ends) |-> DateAfter(s, ends[k])]

\* (?:submission(?: date)?|due date|closing date)[^\d]*(\d{1,2}[/-]\d{1,2}[/-]\d{2,4}) at i
DueDateAt(s, i) == FirstOk(DateTries(s, DateIndicatorEnds(s, i)))

DueDateSearch(s) == Leftmost([i \in 1..Len(s) |-> DueDateAt(s, i)])

\* re.search(r'(\d{1,2}[/-]\d{1,2}[/-]\d{2,4})', text)
GenericDateSearch(s) == Leftmost([i \in 1..Len(s) |-> DateAt(s, i)])

FormatDate(m) == IF m.ok THEN m.g1 ELSE ""

\* Lines 112-114: the targeted match, else the first date, else "".
ExtractDueDate(text) ==
    FormatDate(FirstOk(<<DueDateSearch(text), GenericDateSearch(text)>>))

\* Eligibility with the comparison len(text) >= 200.
EligibilityFrom200(text) ==
    IF Len(text) >= ExcerptLen THEN Slice(text, 1, ExcerptLen) \o "..." ELSE text

\* text[:200] + '...' if len(text) > 200 else text
Eligibility(text) ==
    IF Len(text) > ExcerptLen THEN Slice(text, 1, ExcerptLen) \o "..." ELSE text

extract_fields(text) ==
    [emd |-> ExtractEmd(text),
     due_date |-> ExtractDueDate(text),
     eligibility |-> Eligibility(text)]

-----------------------------------------------------------------------------
(* simple_summary (lines 90-93).                                             *)

SummarySentences == 3

IsTerminator(c) == c \in {".", "!", "?"}

\* A separator (?<=[.!?])\s+ starts at p.
IsSplitAt(t, p) == p >= 2 /\ IsTerminator(At(t, p - 1)) /\ IsSpace(At(t, p))

Separators(t, b) == {p \in b..Len(t) : IsSplitAt(t, p)}

\* re.split(r'(?<=[.!?])\s+', t), from the piece that starts at b on.
RECURSIVE SplitSentences(_, _)
RECURSIVE SplitAt(_, _, _)
SplitAt(t, b, p) ==
    <<Slice(t, b, p - 1)>> \o SplitSentences(t, RunEnd(t, p, "space") + 1)
SplitSentences(t, b) ==
    IF Separators(t, b) = {} THEN <<Slice(t, b, Len(t))>>
    ELSE SplitAt(t, b, Least(Separators(t, b)))

\* sentences[:n]
FirstN(sentences, n) == SubSeq(sentences, 1, Min(n, Len(sentences)))

simple_summary(text) ==
    JoinWith(FirstN(SplitSentences(Strip(text), 1), SummarySentences), " ")

-----------------------------------------------------------------------------
(* The format extractors (lines 45-87).                                      *)
(*                                                                           *)
(* An uploaded file is [filename, body]. The body says what the file really  *)
(* holds, which need not be what its name says:                              *)
(*   [fmt |-> "pdf", text |-> what pdftotext prints for it]                  *)
(*   [fmt |-> "docx", xml |-> its word/document.xml]                         *)
(*   [fmt |-> "xlsx", sheet |-> the rows of the active sheet, failAt |-> k]  *)
(*       k = 0: iter_rows yields every row; k > 0: an exception is raised    *)
(*       inside the loop of line 83 when row k is due                        *)
(*   [fmt |-> "junk"]  anything else                                          *)
(* A cell is [none |-> TRUE] (an empty cell, None) or                        *)
(* [none |-> FALSE, str |-> str(cell)].                                      *)

\* str.lower()
LowerStr(s) == JoinWith([k \in 1..Len(s) |-> LowerChar(At(s, k))], "")

Greatest(S) == CHOOSE x \in S : \A y \in S : y <= x

\* s.split('.')[-1]: what follows the last period, s itself when it has none
LastDotPart(s) == Slice(s, Greatest({k \in 1..Len(s) : At(s, k) = "."} \cup {0}) + 1, Len(s))

\* filename.lower().split('.')[-1]   (line 126)
Extension(filename) == LastDotPart(LowerStr(filename))

\* extract_text_from_pdf: subprocess.run(..., check=True) raises when the tool
\* is missing or exits non-zero; the except clause returns "".
extract_text_from_pdf(f, toolOk) ==
    IF toolOk /\ f.body.fmt = "pdf" THEN f.body.text ELSE ""

\* re.sub(r'<[^>]+>', '', xml), from position b on: a tag is "<", at least
\* one character that is not ">", and ">"; e is the last of these characters.
IsTagSpan(s, i, e) == At(s, i) = "<" /\ e >= i + 1 /\ At(s, e + 1) = ">"
IsTagAt(s, i) == IsTagSpan(s, i, RunEnd(s, i + 1, "nongt"))

Tags(s, b) == {i \in b..Len(s) : IsTagAt(s, i)}

RECURSIVE StripTags(_, _)
RECURSIVE StripAt(_, _, _)
StripAt(s, b, i) ==
    Slice(s, b, i - 1) \o StripTags(s, RunEnd(s, i + 1, "nongt") + 2)
StripTags(s, b) ==
    IF Tags(s, b) = {} THEN Slice(s, b, Len(s)) ELSE StripAt(s, b, Least(Tags(s, b)))

\* extract_text_from_docx: ZipFile or the missing entry raises for anything
\* that is not a docx archive; the except clause returns "".
extract_text_from_docx(f) ==
    IF f.body.fmt = "docx" THEN StripTags(f.body.xml, 1) ELSE ""

\* str(cell) if cell is not None else ''
CellStr(cell) == IF cell.none THEN "" ELSE cell.str

\* load_workbook raises for a file that is not a workbook, and for a path
\* that does not end in an xlsx extension (openpyxl refuses ".xls").
WorkbookLoads(f) == f.body.fmt = "xlsx" /\ Extension(f.filename) = "xlsx"

\* The rows the loop of lines 83-84 appends before it ends or an exception
\* ends it.
RowsRead(sheet, failAt) ==
    IF failAt = 0 THEN Len(sheet) ELSE Min(failAt - 1, Len(sheet))

\* [str(cell) if cell is not None else '' for cell in row]
RowStrs(row) == [j \in 1..Len(row) |-> CellStr(row[j])]

\* parse_xlsx: rows is filled inside the try block, so an exception leaves in
\* it the rows appended before it was raised (none when load_workbook raises).
parse_xlsx(f) ==
    IF ~WorkbookLoads(f) THEN <<>>
    ELSE [i \in 1..RowsRead(f.body.sheet, f.body.failAt) |-> RowStrs(f.body.sheet[i])]

\* Whether the extractor the file is dispatched to fails on it.
ExtractorFails(f, ext, toolOk) ==
    \/ ext = "pdf" /\ ~(toolOk /\ f.body.fmt = "pdf")
    \/ ext = "docx" /\ f.body.fmt # "docx"
    \/ ext \in {"xlsx", "xls"} /\ ~WorkbookLoads(f)
    \/ ext \in {"xlsx", "xls"} /\ f.body.failAt # 0 /\ f.body.failAt <= Len(f.body.sheet)

-----------------------------------------------------------------------------
(* process_file (lines 119-155), up to the record it builds.                 *)

UPLOAD_DIR == "uploads"
FallbackRows == 5

\* Dispatch that also sends a .txt file to the PDF extractor.
DispatchTxt(ext) ==
    CASE ext \in {"pdf", "txt"} -> "extract_text_from_pdf"
      [] ext = "docx" -> "extract_text_from_docx"
      [] ext \in {"xlsx", "xls"} -> "parse_xlsx"
      [] OTHER -> ""

\* The extractor line 129-134 dispatches to ("" for none).
Dispatch(ext) ==
    CASE ext = "pdf" -> "extract_text_from_pdf"
      [] ext = "docx" -> "extract_text_from_docx"
      [] ext \in {"xlsx", "xls"} -> "parse_xlsx"
      [] OTHER -> ""

\* Flatten without the [:5].
FlattenAll(table_rows) ==
    JoinWith([i \in 1..Len(table_rows) |-> JoinWith(table_rows[i], ", ")], "\n")

\* '\n'.join([', '.join(row) for row in table_rows[:5]])
Flatten(table_rows) ==
    JoinWith([i \in 1..Min(FallbackRows, Len(table_rows)) |->
                 JoinWith(table_rows[i], ", ")], "\n")

\* datetime.isoformat() of a clock reading [s, us]: the microseconds are
\* printed only when they are not 0.
Digit(n) == At("0123456789", n + 1)
IsoFormat(now) ==
    "2024-05-12T10:00:0" \o Digit(now.s)
    \o (IF now.us = 0 THEN "" ELSE ".00000" \o Digit(now.us))

EmptyFields == [emd |-> "", due_date |-> "", eligibility |-> ""]

\* Lines 127-134: text and table_rows after the call of the extractor the
\* extension selects (none leaves both as they were set, empty).
ExtractedText(f, extractor, toolOk) ==
    CASE extractor = "extract_text_from_pdf" -> extract_text_from_pdf(f, toolOk)
      [] extractor = "extract_text_from_docx" -> extract_text_from_docx(f)
      [] OTHER -> ""

ExtractedRows(f, extractor) == IF extractor = "parse_xlsx" THEN parse_xlsx(f) ELSE <<>>

\* Lines 136-138: if not text and table_rows: text = flat
FallbackText(text, table_rows) ==
    IF text = "" /\ table_rows # <<>> THEN Flatten(table_rows) ELSE text

\* Lines 139-140
Summary(text) == IF text # "" THEN simple_summary(text) ELSE ""
Fields(text) == IF text # "" THEN extract_fields(text) ELSE EmptyFields

\* The dict of lines 141-152
Tender(file_id, filename, text, table_rows, summary, fields, now) ==
    [id |-> file_id,
     filename |-> filename,
     path |-> UPLOAD_DIR \o "/" \o file_id \o "_" \o filename,
     text |-> text,
     table_rows |-> table_rows,
     summary |-> summary,
     emd |-> fields.emd,
     due_date |-> fields.due_date,
     eligibility |-> fields.eligibility,
     uploaded_at |-> IsoFormat(now)]

TenderOf(file_id, filename, text, table_rows, now) ==
    Tender(file_id, filename, text, table_rows, Summary(text), Fields(text), now)

TenderFor(f, extractor, file_id, now, toolOk) ==
    TenderOf(file_id, f.filename,
             FallbackText(ExtractedText(f, extractor, toolOk), ExtractedRows(f, extractor)),
             ExtractedRows(f, extractor), now)

\* The tender process_file builds (lines 119-152) for the upload f, with
\* uuid4() = file_id and datetime.now() = now.
BuildTender(f, file_id, now, toolOk) ==
    TenderFor(f, Dispatch(Extension(f.filename)), file_id, now, toolOk)

-----------------------------------------------------------------------------
(* The dict `tenders` and its JSON file (lines 31-42).                       *)

DictKeys(d) == {d[i].k : i \in 1..Len(d)}

\* d.get(k): [found |-> FALSE] is None
DictGet(d, k) ==
    IF k \in DictKeys(d)
    THEN [found |-> TRUE, v |-> d[CHOOSE i \in 1..Len(d) : d[i].k = k].v]
    ELSE [found |-> FALSE]

\* DictSet as  tenders = {k: v}  would do it.
DictSetClobber(d, k, v) == <<[k |-> k, v |-> v]>>

\* d[k] = v: a new key is appended, a known key keeps its place
DictSet(d, k, v) ==
    IF k \in DictKeys(d)
    THEN [i \in 1..Len(d) |-> IF d[i].k = k THEN [k |-> k, v |-> v] ELSE d[i]]
    ELSE Append(d, [k |-> k, v |-> v])

DictValues(d) == [i \in 1..Len(d) |-> d[i].v]

TenderKeys ==
    <<"id", "filename", "path", "text", "table_rows", "summary", "emd",
      "due_date", "eligibility", "uploaded_at">>

\* JsonOfTender with the last member left out.
JsonOfTenderLossy(t) ==
    [i \in 1..(Len(TenderKeys) - 1) |-> <<TenderKeys[i], t[TenderKeys[i]]>>]

\* The JSON object json.dump writes for one tender: its members in the
\* order the dict of lines 141-152 holds them.
JsonOfTender(t) == [i \in 1..Len(TenderKeys) |-> <<TenderKeys[i], t[TenderKeys[i]]>>]

\* The dict json.load builds from an object's members: a repeated name keeps
\* its last value.
TenderOfJson(members) ==
    [n \in {members[i][1] : i \in 1..Len(members)} |->
        members[CHOOSE i \in 1..Len(members) :
                    /\ members[i][1] = n
                    /\ \A j \in (i + 1)..Len(members) : members[j][1] # n][2]]

LBrace == [t |-> "{"]
RBrace == [t |-> "}"]
Comma == [t |-> ","]
Member(k, v) == [t |-> "member", key |-> k, val |-> JsonOfTender(v)]

\* The chunks json.dump(tenders, f) writes, in order.
Serialize(d) ==
    <<LBrace>>
    \o [i \in 1..(IF d = <<>> THEN 0 ELSE 2 * Len(d) - 1) |->
           IF i % 2 = 1 THEN Member(d[(i + 1) \div 2].k, d[(i + 1) \div 2].v) ELSE Comma]
    \o <<RBrace>>

IsJsonObject(c) ==
    /\ Len(c) >= 2
    /\ c[1] = LBrace
    /\ c[Len(c)] = RBrace
    /\ Len(c) = 2 \/ Len(c) % 2 = 1
    /\ \A i \in 2..(Len(c) - 1) :
           IF i % 2 = 0 THEN c[i].t = "member" ELSE c[i] = Comma

RECURSIVE DictFromMembers(_, _, _)
DictFromMembers(c, i, d) ==
    IF i >= Len(c) THEN d
    ELSE DictFromMembers(c, i + 2, DictSet(d, c[i].key, TenderOfJson(c[i].val)))

\* json.load(f): [ok |-> FALSE] is the JSONDecodeError
Parse(c) ==
    IF IsJsonObject(c) THEN [ok |-> TRUE, val |-> DictFromMembers(c, 2, <<>>)]
    ELSE [ok |-> FALSE]

NoFile == [exists |-> FALSE, content |-> <<>>]
File(c) == [exists |-> TRUE, content |-> c]

\* save_tenders(): open(DATA_FILE, 'w') and json.dump
save_tenders(d) == File(Serialize(d))

\* LoadTenders with a load that falls back to {} when json.load raises.
LoadTendersLenient(file) ==
    IF file.exists /\ Parse(file.content).ok THEN Parse(file.content)
    ELSE [ok |-> TRUE, val |-> <<>>]

\* Lines 32-36: what the import of the module leaves in `tenders`
\* ([ok |-> FALSE]: the import raises).
LoadTenders(file) ==
    IF file.exists THEN Parse(file.content) ELSE [ok |-> TRUE, val |-> <<>>]

-----------------------------------------------------------------------------
(* process_file as a whole, and the handlers' pure parts.                    *)

\* Lines 153-155 on the dict d: the tender returned, the dict after line 153
\* and the file after line 154.
Stored(d, tender) ==
    [tender |-> tender,
     tenders |-> DictSet(d, tender.id, tender),
     file |-> save_tenders(DictSet(d, tender.id, tender))]

\* process_file (lines 119-155) on the dict d
process_file(d, f, file_id, now, toolOk) ==
    Stored(d, BuildTender(f, file_id, now, toolOk))

\* One turn of the loop of lines 386-387: st holds the dict and the file, r is
\* what process_file returned (the loop drops the tender).
Advance(st, r) == [tenders |-> r.tenders, file |-> r.file]

\* for f in files: process_file(f)   (lines 386-387), from file i on
RECURSIVE UploadLoop(_, _, _, _, _, _)
UploadLoop(st, files, ids, times, toolOk, i) ==
    IF i > Len(files) THEN st
    ELSE UploadLoop(Advance(st, process_file(st.tenders, files[i], ids[i], times[i], toolOk)),
                    files, ids, times, toolOk, i + 1)

\* The order of two isoformat strings as Python compares str: by the first
\* character that differs, a proper prefix first.
CharOrder == "-.0123456789:T"
Ord(c) == CHOOSE k \in 1..Len(CharOrder) : At(CharOrder, k) = c

StrLess(a, b) ==
    LET n == Min(Len(a), Len(b))
        diff == {k \in 1..n : At(a, k) # At(b, k)}
        k1 == CHOOSE k \in diff : \A r \in diff : k <= r
    IN  IF diff = {} THEN Len(a) < Len(b)
        ELSE Ord(At(a, k1)) < Ord(At(b, k1))

\* InsertDesc of a sort that puts x before the elements its key is equal to.
RECURSIVE InsertDescUnstable(_, _)
InsertDescUnstable(sorted, x) ==
    IF sorted = <<>> THEN <<x>>
    ELSE IF ~StrLess(x.uploaded_at, sorted[1].uploaded_at) THEN <<x>> \o sorted
    ELSE <<sorted[1]>> \o InsertDescUnstable(Tail(sorted), x)

\* sorted(..., key=lambda x: x['uploaded_at'], reverse=True) is stable: x goes
\* after every element whose key is not smaller than its own.
RECURSIVE InsertDesc(_, _)
InsertDesc(sorted, x) ==
    IF sorted = <<>> THEN <<x>>
    ELSE IF StrLess(sorted[1].uploaded_at, x.uploaded_at) THEN <<x>> \o sorted
    ELSE <<sorted[1]>> \o InsertDesc(Tail(sorted), x)

RECURSIVE SortedDesc(_, _)
SortedDesc(values, acc) ==
    IF values = <<>> THEN acc
    ELSE SortedDesc(Tail(values), InsertDesc(acc, values[1]))

\* The placeholder the pages show for an empty field (an em dash in the source).
Dash == "-"

\* x or y  for strings
OrElse(x, y) == IF x # "" THEN x ELSE y

\* The rows index() renders (lines 361-372), in order.
IndexRows(d) ==
    LET tender_list == SortedDesc(DictValues(d), <<>>)
    IN  [i \in 1..Len(tender_list) |->
            [n |-> i,
             filename |-> tender_list[i].filename,
             emd |-> OrElse(tender_list[i].emd, Dash),
             due |-> OrElse(tender_list[i].due_date, Dash),
             summary |-> OrElse(tender_list[i].summary, "No summary"),
             id |-> tender_list[i].id]]

DetailRows == 10

\* What tender_detail() renders for a tender (lines 399-418).
DetailView(tender) ==
    [filename |-> tender.filename,
     uploaded_at |-> tender.uploaded_at,
     emd |-> OrElse(tender.emd, Dash),
     due_date |-> OrElse(tender.due_date, Dash),
     eligibility |-> OrElse(tender.eligibility, Dash),
     summary |-> OrElse(tender.summary, "No summary available for this tender."),
     full_text |-> tender.text,
     table |-> [i \in 1..Min(DetailRows, Len(tender.table_rows)) |->
                   SubSeq(tender.table_rows[i], 1,
                          Min(DetailRows, Len(tender.table_rows[i])))]]

LastSlash(path) ==
    LET sl == {k \in 1..Len(path) : At(path, k) = "/"}
    IN  IF sl = {} THEN 0 ELSE CHOOSE k \in sl : \A r \in sl : r <= k

\* os.path.dirname, os.path.basename
Dirname(path) == Slice(path, 1, LastSlash(path) - 1)
Basename(path) == Slice(path, LastSlash(path) + 1, Len(path))

-----------------------------------------------------------------------------
(* Spec: one server process handling one request at a time.                  *)

Pdf(text) == [fmt |-> "pdf", text |-> text]
Docx(xml) == [fmt |-> "docx", xml |-> xml]
Xlsx(sheet, failAt) == [fmt |-> "xlsx", sheet |-> sheet, failAt |-> failAt]
Junk == [fmt |-> "junk"]
Upl(filename, body) == [filename |-> filename, body |-> body]
Cell(str) == [none |-> FALSE, str |-> str]
None == [none |-> TRUE]

\* Two readings of datetime.now(): isoformat() prints the first without
\* microseconds.
Times == {[s |-> 0, us |-> 0], [s |-> 0, us |-> 1]}

IdPool == {"id" \o Digit(k) : k \in 1..MaxTenders}

EmptyUpload == Upl("", Junk)

StoreUploads ==
    {Upl("t.pdf", Pdf("Rs 5. 1/2/24")),
     Upl("s.xlsx", Xlsx(<<<<Cell("EMD"), None>>, <<Cell("INR 7"), Cell("x")>>>>, 0))}

SeqsUpTo(S, n) == UNION {[1..k -> S] : k \in 0..n}

\* The upload requests: with no 'files' part, with nothing selected (the
\* browser then sends one file with an empty name), or with files.
Requests ==
    {[part |-> FALSE, files |-> <<>>], [part |-> TRUE, files |-> <<EmptyUpload>>]}
    \cup {[part |-> TRUE, files |-> fs] : fs \in SeqsUpTo(StoreUploads, MaxFiles)}

\* Snapshot files the process did not finish writing, or did not write.
CorruptFiles == {File(<<>>), File(<<LBrace>>), File(<<[t |-> "junk"]>>)}

NoResp == [kind |-> "none"]

Init ==
    /\ pc = "boot"
    /\ tenders = <<>>
    /\ disk \in {NoFile} \cup CorruptFiles
    /\ resp = NoResp
    /\ arg = ""
    /\ mem = <<>>
    /\ req = <<>>

\* Lines 31-36, run when the module is imported.
Startup ==
    /\ pc = "boot"
    /\ IF LoadTenders(disk).ok
       THEN pc' = "running" /\ tenders' = LoadTenders(disk).val
       ELSE pc' = "failed" /\ UNCHANGED tenders
    /\ resp' = NoResp
    /\ UNCHANGED <<disk, arg, mem, req>>

\* The process ends and is started again: its memory is gone, the file stays.
Stop ==
    /\ pc = "running"
    /\ pc' = "boot"
    /\ tenders' = <<>>
    /\ resp' = NoResp
    /\ UNCHANGED <<disk, arg, mem, req>>

\* upload() (lines 376-389). uuid4() gives each file an id no record has.
Upload(r, ids, times, toolOk) ==
    /\ pc = "running"
    /\ Len(tenders) + Len(r.files) <= MaxTenders
    /\ IF ~r.part
       THEN /\ resp' = [kind |-> "upload", flash |-> "No file part in the request", calls |-> 0]
            /\ UNCHANGED <<tenders, disk>>
       ELSE IF r.files = <<>> \/ r.files[1].filename = ""
       THEN /\ resp' = [kind |-> "upload", flash |-> "No files selected", calls |-> 0]
            /\ UNCHANGED <<tenders, disk>>
       ELSE \E done \in {UploadLoop([tenders |-> tenders, file |-> disk],
                                    r.files, ids, times, toolOk, 1)} :
                /\ tenders' = done.tenders
                /\ disk' = done.file
                /\ resp' = [kind |-> "upload", flash |-> "Uploaded " \o Digit(Len(r.files)) \o " file(s) successfully!",
                            calls |-> Len(r.files)]
    /\ UNCHANGED <<pc, arg, mem, req>>

FreshIds(d, n) ==
    {ids \in [1..n -> IdPool \ DictKeys(d)] : \A i, j \in 1..n : i # j => ids[i] # ids[j]}

\* index() (lines 358-373)
Index ==
    /\ pc = "running"
    /\ resp' = [kind |-> "index", rows |-> IndexRows(tenders)]
    /\ UNCHANGED <<pc, tenders, disk, arg, mem, req>>

\* tender_detail(tid) (lines 392-418)
TenderDetail(tid) ==
    /\ pc = "running"
    /\ resp' = IF DictGet(tenders, tid).found
               THEN [kind |-> "detail", tid |-> tid, view |-> DetailView(DictGet(tenders, tid).v)]
               ELSE [kind |-> "detail", tid |-> tid, flash |-> "Tender not found"]
    /\ UNCHANGED <<pc, tenders, disk, arg, mem, req>>

\* download(tid) (lines 421-430)
Download(tid) ==
    /\ pc = "running"
    /\ resp' = IF DictGet(tenders, tid).found
               THEN [kind |-> "download", tid |-> tid,
                     directory |-> Dirname(DictGet(tenders, tid).v.path),
                     filename |-> Basename(DictGet(tenders, tid).v.path)]
               ELSE [kind |-> "download", tid |-> tid, flash |-> "Tender not found"]
    /\ UNCHANGED <<pc, tenders, disk, arg, mem, req>>

Next ==
    \/ Startup
    \/ Stop
    \/ \E r \in Requests : \E ids \in FreshIds(tenders, Len(r.files)) :
           \E times \in [1..Len(r.files) -> Times] :
               Upload(r, ids, times, TRUE)
    \/ Index
    \/ \E tid \in IdPool \cup {"unknown"} : TenderDetail(tid)
    \/ \E tid \in IdPool \cup {"unknown"} : Download(tid)

Spec == Init /\ [][Next]_vars

-----------------------------------------------------------------------------
(* Properties of the record store, checked under Spec.                       *)

\* C1: while the process runs, the snapshot file holds exactly the in-memory
\* mapping: a startup load of it gives the dict `tenders`, entry for entry and
\* field for field (an absent file standing for the empty dict), and every
\* record of the dict is found under its id.
C1_WriteThrough ==
    pc = "running" =>
        /\ LoadTenders(disk) = [ok |-> TRUE, val |-> tenders]
        /\ \A i \in 1..Len(tenders) :
               DictGet(tenders, tenders[i].v.id) = [found |-> TRUE, v |-> tenders[i].v]

\* A state after an upload of two files, one of them with table rows.
C1_Witness ==
    /\ pc = "running"
    /\ resp.kind = "upload"
    /\ resp.calls = 2
    /\ Len(tenders) = 2
    /\ disk.exists
    /\ \E i \in 1..Len(tenders) : tenders[i].v.table_rows # <<>>

\* C2: a handler of the running process leaves every stored record as it was
\* and where it was; upload() adds one record per process_file call, each
\* under a key the dict did not have and equal to the record's id; index(),
\* tender_detail() and download() add none.
C2_CreatedOnce ==
    [][(pc = "running" /\ pc' = "running") =>
          /\ Len(tenders') >= Len(tenders)
          /\ SubSeq(tenders', 1, Len(tenders)) = tenders
          /\ \A i \in (Len(tenders) + 1)..Len(tenders') :
                 /\ tenders'[i].k \notin DictKeys(tenders)
                 /\ tenders'[i].v.id = tenders'[i].k
                 /\ \A j \in (Len(tenders) + 1)..Len(tenders') :
                        tenders'[j].k = tenders'[i].k => j = i
          /\ resp'.kind = "upload" => Len(tenders') = Len(tenders) + resp'.calls
          /\ resp'.kind \in {"index", "detail", "download"} => tenders' = tenders]_vars

\* A second upload has added its record to a store that held one.
C2_Witness ==
    /\ pc = "running"
    /\ resp.kind = "upload"
    /\ resp.calls = 1
    /\ Len(tenders) = 2

\* The uploaded_at of the record listed in a row, and the record's place in
\* the dict.
C4_UploadedAt(row) == DictGet(tenders, row.id).v.uploaded_at
C4_Place(row) == CHOOSE i \in 1..Len(tenders) : tenders[i].k = row.id

\* C4: index() lists every stored record once, a record never before one
\* with a greater uploaded_at, and records with equal uploaded_at in the
\* order they were inserted.
C4_ListingOrder ==
    resp.kind = "index" =>
        /\ Len(resp.rows) = Len(tenders)
        /\ {resp.rows[i].id : i \in 1..Len(resp.rows)} = DictKeys(tenders)
        /\ \A i, j \in 1..Len(resp.rows) :
               i < j =>
                   /\ ~StrLess(C4_UploadedAt(resp.rows[i]), C4_UploadedAt(resp.rows[j]))
                   /\ C4_UploadedAt(resp.rows[i]) = C4_UploadedAt(resp.rows[j])
                          => C4_Place(resp.rows[i]) < C4_Place(resp.rows[j])

\* A listing of two records with the same uploaded_at.
C4_Witness ==
    /\ resp.kind = "index"
    /\ Len(resp.rows) = 2
    /\ C4_UploadedAt(resp.rows[1]) = C4_UploadedAt(resp.rows[2])

\* C9: the import of the module, with no snapshot file, leaves the process
\* running with an empty dict; with a file json.load accepts, running with
\* the mapping of the file; with any other file it fails, and the process
\* never runs.
C9_StartupLoad ==
    [][(pc = "boot" /\ pc' # "boot") =>
          IF ~disk.exists THEN pc' = "running" /\ tenders' = <<>>
          ELSE IF IsJsonObject(disk.content)
          THEN pc' = "running" /\ Parse(disk.content) = [ok |-> TRUE, val |-> tenders']
          ELSE pc' = "failed"]_vars

\* The import failed on a snapshot file that is there.
C9_Witness == pc = "failed" /\ disk.exists

-----------------------------------------------------------------------------
(* SpecBuild: process_file on one upload, in a process whose dict is empty.  *)

FileNames == {"a.pdf", "A.PDF", "b.docx", "c.xlsx", "d.xls", "e.txt", "noext"}

PdfTexts == {"", "  \n", "EMD Rs. 5. Due date 1/2/24"}

DocXmls == {"<a>", "<w:p><w:t>INR 7</w:t></w:p>"}

\* Row i of a sheet of the given kind.
SheetRow(i, kind) ==
    CASE kind = "plain" -> <<Cell("r" \o Digit(i)), Cell("INR 7")>>
      [] kind = "break" -> IF i = 2 THEN <<Cell("a\nb"), Cell("x")>>
                           ELSE <<Cell("r" \o Digit(i)), None>>
      [] kind = "blank" -> <<None>>

Sheets ==
    {[i \in 1..n |-> SheetRow(i, kind)] :
        n \in 0..MaxRows, kind \in {"plain", "break", "blank"}}

\* The bodies an uploaded file may have, whatever its name says.
Bodies ==
    {Junk}
    \cup {Pdf(t) : t \in PdfTexts}
    \cup {Docx(x) : x \in DocXmls}
    \cup UNION {{Xlsx(sh, k) : k \in 0..Len(sh)} : sh \in Sheets}

BuildInputs ==
    [f : {Upl(n, b) : n \in FileNames, b \in Bodies},
     file_id : {"id1"},
     now : Times,
     toolOk : BOOLEAN]

InitBuild ==
    /\ pc = "ready"
    /\ arg \in BuildInputs
    /\ tenders = <<>>
    /\ disk = NoFile
    /\ resp = NoResp
    /\ mem = <<>>
    /\ req = <<>>

\* process_file(arg.f): called is the extractor line 129-134 called.
ProcessFile ==
    /\ pc = "ready"
    /\ \E r \in {process_file(tenders, arg.f, arg.file_id, arg.now, arg.toolOk)} :
           /\ tenders' = r.tenders
           /\ disk' = r.file
           /\ resp' = [kind |-> "tender", tender |-> r.tender,
                       called |-> Dispatch(Extension(arg.f.filename))]
    /\ pc' = "done"
    /\ UNCHANGED <<arg, mem, req>>

NextBuild == ProcessFile

SpecBuild == InitBuild /\ [][NextBuild]_vars

SupportedExts == {"pdf", "docx", "xlsx", "xls"}

\* C3: for a file with a supported extension process_file returns and stores
\* a tender with a non-empty id and uploaded_at, and an extractor that failed
\* has contributed an empty text and no rows.
C3_FailureContributesNothing ==
    (pc = "done" /\ Extension(arg.f.filename) \in SupportedExts) =>
        /\ resp.tender.id # ""
        /\ resp.tender.uploaded_at # ""
        /\ DictGet(tenders, resp.tender.id) = [found |-> TRUE, v |-> resp.tender]
        /\ ExtractorFails(arg.f, Extension(arg.f.filename), arg.toolOk) =>
               resp.tender.text = "" /\ resp.tender.table_rows = <<>>

\* C5: a record whose text is empty has an empty summary, emd, due_date and
\* eligibility; for a file whose extension is none of pdf, docx, xlsx, xls no
\* extractor is called, the record is stored and its table_rows, text and
\* derived fields are empty.
C5_EmptyText ==
    pc = "done" =>
        /\ resp.tender.text = "" =>
               /\ resp.tender.summary = ""
               /\ resp.tender.emd = ""
               /\ resp.tender.due_date = ""
               /\ resp.tender.eligibility = ""
        /\ Extension(arg.f.filename) \notin SupportedExts =>
               /\ resp.called = ""
               /\ resp.tender.table_rows = <<>>
               /\ resp.tender.text = ""
               /\ DictGet(tenders, resp.tender.id) = [found |-> TRUE, v |-> resp.tender]

\* A PDF the tool can read, uploaded under a .txt name.
C5_Witness ==
    /\ pc = "done"
    /\ Extension(arg.f.filename) = "txt"
    /\ arg.toolOk
    /\ arg.f.body.fmt = "pdf"
    /\ arg.f.body.text # ""
    /\ resp.tender.text = ""
    /\ resp.tender.eligibility = ""

\* The lines of a string, and the line breaks inside the cells of the first
\* k rows.
C6_Lines(str) == 1 + Cardinality({p \in 1..Len(str) : At(str, p) = "\n"})
C6_Breaks(rows, k) ==
    Cardinality(UNION {UNION {{<<i, j, p>> : p \in {q \in 1..Len(rows[i][j]) :
                                                       At(rows[i][j], q) = "\n"}} :
                                 j \in 1..Len(rows[i])} : i \in 1..k})

\* The first n of parts with sep between them.
RECURSIVE C6_Joined(_, _, _)
C6_Joined(parts, sep, n) ==
    IF n = 0 THEN ""
    ELSE IF n = 1 THEN parts[1]
    ELSE C6_Joined(parts, sep, n - 1) \o sep \o parts[n]

C6_RowsJoined(rows, k) ==
    C6_Joined([i \in 1..k |-> C6_Joined(rows[i], ", ", Len(rows[i]))], "\n", k)

\* C6 as amended: when parse_xlsx returned rows, the text stored and fed to
\* simple_summary and extract_fields is the first 5 rows (all, when there are
\* fewer), each row its cells joined by ", ", joined by newlines; it has one
\* line per such row and one more for each line break inside their cells;
\* table_rows holds every row the parser read.
C6_Fallback ==
    (pc = "done" /\ resp.called = "parse_xlsx" /\ resp.tender.table_rows # <<>>) =>
        /\ resp.tender.text = C6_RowsJoined(resp.tender.table_rows,
                                            Min(5, Len(resp.tender.table_rows)))
        /\ C6_Lines(resp.tender.text) =
               Min(5, Len(resp.tender.table_rows))
               + C6_Breaks(resp.tender.table_rows, Min(5, Len(resp.tender.table_rows)))
        /\ Len(resp.tender.table_rows) =
               (IF arg.f.body.failAt = 0 THEN Len(arg.f.body.sheet)
                ELSE arg.f.body.failAt - 1)
        /\ resp.tender.text # "" =>
               /\ resp.tender.summary = simple_summary(resp.tender.text)
               /\ resp.tender.eligibility = Eligibility(resp.tender.text)

\* A sheet of more than 5 rows with a line break in a cell of the second.
C6_Witness ==
    /\ pc = "done"
    /\ resp.called = "parse_xlsx"
    /\ Len(resp.tender.table_rows) > 5
    /\ C6_Breaks(resp.tender.table_rows, 5) = 1
    /\ C6_Lines(resp.tender.text) = 6

\* C6 as stated: for a sheet that was read to its end, the text is the
\* flattening of the first 5 rows, a sheet of 3 rows of 2 cells gives 3 lines,
\* a sheet of more than 5 rows gives 5 lines, and table_rows holds all rows.
C6_Original ==
    (pc = "done" /\ resp.called = "parse_xlsx" /\ resp.tender.table_rows # <<>>
       /\ arg.f.body.failAt = 0) =>
        /\ resp.tender.text = C6_RowsJoined(resp.tender.table_rows,
                                            Min(5, Len(resp.tender.table_rows)))
        /\ Len(resp.tender.table_rows) = Len(arg.f.body.sheet)
        /\ (Len(arg.f.body.sheet) = 3 /\ \A i \in 1..3 : Len(arg.f.body.sheet[i]) = 2)
               => C6_Lines(resp.tender.text) = 3
        /\ Len(arg.f.body.sheet) > 5 => C6_Lines(resp.tender.text) = 5

-----------------------------------------------------------------------------
(* SpecFields: extract_fields on one text.                                   *)

Fragments == {"EMD", "Earnest money deposit", "Rs 1", "INR 7", " ", "\n"}

RECURSIVE Concat(_)
Concat(frags) == IF frags = <<>> THEN "" ELSE frags[1] \o Concat(Tail(frags))

Block == "Bidders must hold a valid licence. EMD: "
LongBase == Block \o Block \o Block \o Block \o Block \o Block

\* Texts of ExcerptLen - 1 to ExcerptLen + MaxPad characters.
LongTexts == {Slice(LongBase, 1, n) : n \in (ExcerptLen - 1)..(ExcerptLen + MaxPad)}

Texts == {Concat(frags) : frags \in SeqsUpTo(Fragments, MaxFrags)} \cup LongTexts

InitFields ==
    /\ pc = "ready"
    /\ arg \in Texts
    /\ tenders = <<>>
    /\ disk = NoFile
    /\ resp = NoResp
    /\ mem = <<>>
    /\ req = <<>>

\* extract_fields(arg)
ExtractFields ==
    /\ pc = "ready"
    /\ resp' = [kind |-> "fields", fields |-> extract_fields(arg)]
    /\ pc' = "done"
    /\ UNCHANGED <<tenders, disk, arg, mem, req>>

NextFields == ExtractFields

SpecFields == InitFields /\ [][NextFields]_vars

\* C7: the eligibility excerpt of a non-empty text of at most 200 characters
\* is the text; of a longer text it is the first 200 characters and "...";
\* it is never longer than 203 characters.
C7_ExcerptBoundary ==
    (pc = "done" /\ arg # "") =>
        /\ Len(arg) <= 200 => resp.fields.eligibility = arg
        /\ Len(arg) >= 201 => resp.fields.eligibility = SubSeq(arg, 1, 200) \o "..."
        /\ Len(resp.fields.eligibility) <= 203

\* The excerpt of a text of exactly 200 characters.
C7_Witness ==
    /\ pc = "done"
    /\ Len(arg) = 200
    /\ resp.fields.eligibility = arg

\* The markers with a number that start at or after e, anywhere in the rest
\* of the text, and the positions of the indicators that have one after them.
C8_After(s, e) == {j \in e..Len(s) : MarkerNumAt(s, j, TRUE).ok}
C8_Indicated(s) ==
    {i \in 1..Len(s) :
        \E k \in 1..Len(EmdIndicatorEnds(s, i)) : C8_After(s, EmdIndicatorEnds(s, i)[k]) # {}}
C8_FirstAfter(s, e) == FormatEmd(MarkerNumAt(s, Least(C8_After(s, e)), TRUE))
C8_Expected(s) ==
    IF C8_Indicated(s) # {}
    THEN C8_FirstAfter(s, EmdIndicatorEnds(s, Least(C8_Indicated(s)))[1])
    ELSE FormatEmd(GeneralSearch(s))

\* C8: when an indicator ("EMD" or "Earnest Money Deposit", any case) is
\* followed anywhere in the rest of the text by a currency marker and a
\* number, emd is "<marker> <number>" of the first such marker after the
\* indicator; otherwise it is that of the first marker and number anywhere in
\* the text, and empty when there is none.
C8_DepositPrecedence ==
    pc = "done" => resp.fields.emd = C8_Expected(arg)

-----------------------------------------------------------------------------
(* SpecConc: two upload requests served at the same time, by threads of one  *)
(* worker process or by two worker processes. Each process has its own dict  *)
(* `tenders`, loaded when no snapshot file existed; all share DATA_FILE.     *)
(* A request runs process_file in steps between which the others may run:   *)
(* line 153, the open of line 40, each chunk of the json.dump of line 41,    *)
(* and the close that ends the with block. A snapshot of a few records is    *)
(* smaller than the buffer of the file object, so what json.dump writes      *)
(* reaches the file when the file is closed.                                 *)

Reqs == {"r1", "r2"}
Procs == {"w1", "w2"}

\* uuid4() of each request
ReqId == [r \in Reqs |-> IF r = "r1" THEN "id1" ELSE "id2"]

\* A write of buf at offset 0 of a file that holds content: the file keeps
\* what it held beyond the end of buf.
OverlayAppend(content, buf) == content \o buf

Overlay(content, buf) ==
    [i \in 1..Max(Len(content), Len(buf)) |->
        IF i <= Len(buf) THEN buf[i] ELSE content[i]]

InitConc ==
    /\ pc = "serving"
    /\ tenders = <<>>
    /\ disk = NoFile
    /\ resp = NoResp
    /\ arg = ""
    /\ mem = [p \in Procs |-> <<>>]
    /\ req \in [Reqs -> [pc : {"start"}, proc : Procs, f : StoreUploads,
                         now : Times, buf : {<<>>}, it : {0}, size : {0}]]

\* Lines 119-153: the tender is built and put into the dict of the process.
Insert(r) ==
    /\ req[r].pc = "start"
    /\ mem' = [mem EXCEPT ![req[r].proc] =
                  DictSet(@, ReqId[r], BuildTender(req[r].f, ReqId[r], req[r].now, TRUE))]
    /\ req' = [req EXCEPT ![r].pc = "open"]
    /\ UNCHANGED <<pc, tenders, disk, resp, arg>>

\* Line 40: open(DATA_FILE, 'w') creates the file or truncates it.
Open(r) ==
    /\ req[r].pc = "open"
    /\ disk' = File(<<>>)
    /\ req' = [req EXCEPT ![r].pc = "dump", ![r].buf = <<>>, ![r].it = 0]
    /\ resp' = [kind |-> "opened", by |-> r]
    /\ UNCHANGED <<pc, tenders, arg, mem>>

\* The chunk json.dump writes for entry i of the dict d.
Chunk(d, i) ==
    (IF i = 1 THEN <<>> ELSE <<Comma>>) \o <<Member(d[i].k, d[i].v)>>

\* Line 41, one step of json.dump: "{" and the iterator over the dict, then
\* one entry for each next() of the iterator, then "}". next() raises
\* RuntimeError when the size of the dict has changed since the iterator was
\* made; the with block then closes the file, which writes what was buffered.
Dump(r) ==
    /\ req[r].pc = "dump"
    /\ IF req[r].it = 0
       THEN /\ req' = [req EXCEPT ![r].buf = <<LBrace>>, ![r].it = 1,
                                  ![r].size = Len(mem[req[r].proc])]
            /\ UNCHANGED <<disk, resp>>
       ELSE IF Len(mem[req[r].proc]) # req[r].size
       THEN /\ disk' = File(Overlay(disk.content, req[r].buf))
            /\ req' = [req EXCEPT ![r].pc = "error"]
            /\ resp' = [kind |-> "raised", by |-> r]
       ELSE IF req[r].it <= req[r].size
       THEN /\ req' = [req EXCEPT ![r].buf = @ \o Chunk(mem[req[r].proc], req[r].it),
                                  ![r].it = @ + 1]
            /\ UNCHANGED <<disk, resp>>
       ELSE /\ req' = [req EXCEPT ![r].buf = @ \o <<RBrace>>, ![r].pc = "close"]
            /\ UNCHANGED <<disk, resp>>
    /\ UNCHANGED <<pc, tenders, arg, mem>>

\* The end of the with block of lines 40-41: the buffer is written from the
\* start of the file, which is not truncated again.
Close(r) ==
    /\ req[r].pc = "close"
    /\ disk' = File(Overlay(disk.content, req[r].buf))
    /\ req' = [req EXCEPT ![r].pc = "done"]
    /\ resp' = [kind |-> "closed", by |-> r]
    /\ UNCHANGED <<pc, tenders, arg, mem>>

NextConc ==
    \/ \E r \in Reqs : Insert(r)
    \/ \E r \in Reqs : Open(r)
    \/ \E r \in Reqs : Dump(r)
    \/ \E r \in Reqs : Close(r)

SpecConc == InitConc /\ [][NextConc]_vars

=============================================================================
